---- MODULE Spec2Model ----
(***************************************************************************)
(* State-machine model of the IMF demuxer of libavformat/imfdec.c:         *)
(* imf_read_header (open), imf_read_packet (the packet pump) and imf_close.*)
(* The CPL, the Asset Map document and the behaviour of the child          *)
(* demuxers are inputs; the virtual-track playback state, the outer        *)
(* streams and the emitted packets are the state.                          *)
(***************************************************************************)
EXTENDS Integers, Sequences, FiniteSets, TLC

(***************************************************************************)
(* Bounds of the model.                                                    *)
(***************************************************************************)
\* main audio virtual tracks of a composition: 0..MaxAudio
MaxAudio == 1
\* resources of one virtual track of a single-track composition: 1..MaxRes
MaxRes == 2
\* RepeatCount of a resource: 1..MaxRepeat
MaxRepeat == 2
\* calls in a row ending on the child's end of file that are told apart
MaxEofStreak == 2
\* children of the AssetList of an Asset Map document: 0..MaxAssets
MaxAssets == 2

(***************************************************************************)
(* Program constants.                                                      *)
(***************************************************************************)
INT32_MAX == 2147483647
AV_TIME_BASE == 1000000

\* return codes
OK == "0"
AVERROR_EOF == "AVERROR_EOF"
AVERROR_INVALIDDATA == "AVERROR_INVALIDDATA"
AVERROR_STREAM_NOT_FOUND == "AVERROR_STREAM_NOT_FOUND"
\* errors of the child demuxers and of the CPL parser, propagated verbatim
ERR_CPL == "ERR_CPL"
ERR_OPEN_INPUT == "ERR_OPEN_INPUT"
ERR_STREAM_INFO == "ERR_STREAM_INFO"
ERR_SEEK == "ERR_SEEK"
ERR_COPY_PARAMS == "ERR_COPY_PARAMS"
ERR_READ_FRAME == "ERR_READ_FRAME"
\* not a return code: the call never returns (loop without progress, or a
\* fault on an invalid pointer)
HANG == "HANG"
CRASH == "CRASH"

(***************************************************************************)
(* AVRational: <<num, den>>, den > 0 in every value the model builds.      *)
(***************************************************************************)
\* a call by value: F applied to the value of its argument, evaluated once
CallByValue(F(_), v) == CHOOSE y \in {F(x) : x \in {v}} : TRUE

RECURSIVE Gcd(_, _)
Gcd(a, b) == IF b = 0 THEN a ELSE Gcd(b, a % b)

Abs(x) == IF x < 0 THEN -x ELSE x

av_make_q(num, den) == <<num, den>>

\* av_reduce with max INT_MAX: exact while the reduced terms fit in an int
av_reduce(num, den) ==
    LET g == Gcd(Abs(num), Abs(den))
    IN  IF g = 0 THEN <<0, 1>> ELSE <<num \div g, den \div g>>

av_add_q(b, c) == av_reduce(b[1] * c[2] + c[1] * b[2], b[2] * c[2])

av_mul_q(b, c) == av_reduce(b[1] * c[1], b[2] * c[2])

av_inv_q(q) == <<q[2], q[1]>>

\* sign of a - b, by whole parts first so that a sentinel of INT32_MAX does
\* not overflow the cross product
av_cmp_q(a, b) ==
    LET fa == a[1] \div a[2]
        fb == b[1] \div b[2]
        ra == (a[1] % a[2]) * b[2]
        rb == (b[1] % b[2]) * a[2]
    IN  IF fa < fb THEN -1
        ELSE IF fa > fb THEN 1
        ELSE IF ra < rb THEN -1
        ELSE IF ra > rb THEN 1
        ELSE 0

\* (int64_t)av_q2d(q) for q >= 0
q2int(q) == q[1] \div q[2]

(***************************************************************************)
(* Inputs: CPL resources, track files, Asset Map documents.                *)
(***************************************************************************)
UUIDs == {1, 2}
EditRates == {<<1, 1>>, <<2, 1>>}
EntryPoints == {0, 2}
Durations == {1, 2}
\* durations of the packets a child demuxer delivers, in units of its time
\* base: none, one edit unit, and more than what is left of a resource
PktDurations == {0, 1, 2}

\* time base of the first stream of the track file with this UUID
FileTimeBase(uuid) == IF uuid = 1 THEN <<1, 1>> ELSE <<1, 2>>

\* FFIMFTrackFileResource
TrackFileResource(rate, entry, dur, rep, uuid) ==
    [edit_rate |-> rate, entry_point |-> entry, duration |-> dur,
     repeat_count |-> rep, track_file_uuid |-> uuid]

SeqsUpTo(S, n) == UNION {[1..k -> S] : k \in 1..n}


(***************************************************************************)
(* Asset Map documents.  A document is its root element name, whether the  *)
(* root has an AssetList child, and the element children of AssetList; an  *)
(* element is its name and which of Id, ChunkList, Chunk and Path it has.  *)
(***************************************************************************)
NoUuid == 0
NoPath == "none"
PathKinds == {"relative", "url", "unix_abs", "dos_abs"}

AssetElement(uuid) ==
    [name |-> "Asset", Id |-> uuid, ChunkList |-> TRUE, Chunk |-> TRUE,
     Path |-> "relative"]

AssetMapDoc(uuids) ==
    [root |-> "AssetMap", AssetList |-> TRUE,
     children |-> [i \in 1..Len(uuids) |-> AssetElement(uuids[i])]]

\* IMFAssetLocator
AssetLocator(uuid, uri) == [uuid |-> uuid, absolute_uri |-> uri]

imf_uri_is_url(path) == path = "url"
imf_uri_is_unix_abs_path(path) == path = "unix_abs"
imf_uri_is_dos_abs_path(path) == path = "dos_abs"

\* what the URI tests can meet when they read the content of a Path element
\* that is not there (a null pointer): a fault, or bytes that read as one of
\* the kinds of path
NullPathOutcomes == {"crash"} \cup PathKinds

\* ff_xml_read_uuid on the Id child of an Asset: non-zero when the UUID
\* cannot be read
ff_xml_read_uuid(id) == IF id = NoUuid THEN AVERROR_INVALIDDATA ELSE OK

\* the walk over the children of AssetList, from child i on; np is what the
\* read of a missing Path meets
RECURSIVE parse_asset_elements(_, _, _, _)
parse_asset_elements(children, i, assets, np) ==
    IF i > Len(children) THEN [ret |-> OK, assets |-> assets]
    ELSE LET e == children[i] IN
         IF e.name # "Asset"
           THEN [ret |-> HANG, assets |-> assets]
         ELSE IF ff_xml_read_uuid(e.Id) # OK
           THEN [ret |-> AVERROR_INVALIDDATA, assets |-> assets]
         ELSE IF ~e.ChunkList
           THEN [ret |-> AVERROR_INVALIDDATA, assets |-> assets]
         ELSE IF ~e.Chunk
           THEN [ret |-> AVERROR_INVALIDDATA, assets |-> assets]
         ELSE IF e.Path = NoPath /\ np = "crash"
           THEN [ret |-> CRASH, assets |-> assets]
         ELSE LET path == IF e.Path = NoPath THEN np ELSE e.Path
                  uri == IF ~imf_uri_is_url(path)
                            /\ ~imf_uri_is_unix_abs_path(path)
                            /\ ~imf_uri_is_dos_abs_path(path)
                         THEN <<"base_url", e.Id>>
                         ELSE <<"", e.Id>>
              IN  parse_asset_elements(children, i + 1,
                      Append(assets, AssetLocator(e.Id, uri)), np)

parse_imf_asset_map_from_xml_dom(doc, assets, np) ==
    IF doc.root = "none" THEN [ret |-> AVERROR_INVALIDDATA, assets |-> assets]
    ELSE IF doc.root # "AssetMap"
      THEN [ret |-> AVERROR_INVALIDDATA, assets |-> assets]
    ELSE IF ~doc.AssetList
      THEN [ret |-> AVERROR_INVALIDDATA, assets |-> assets]
    ELSE parse_asset_elements(doc.children, 1, assets, np)

\* the loop of imf_read_header over the Asset Map paths, from document i on
RECURSIVE parse_assetmaps(_, _, _, _)
parse_assetmaps(docs, i, assets, np) ==
    IF i > Len(docs) THEN [ret |-> OK, assets |-> assets]
    ELSE LET parsed(r) ==
                 IF r.ret # OK THEN r
                 ELSE parse_assetmaps(docs, i + 1, r.assets, np)
         IN  parsed(parse_imf_asset_map_from_xml_dom(docs[i], assets, np))

\* index of the first locator with this UUID, 0 for NULL
RECURSIVE find_from(_, _, _)
find_from(assets, uuid, i) ==
    IF i > Len(assets) THEN 0
    ELSE IF assets[i].uuid = uuid THEN i
    ELSE find_from(assets, uuid, i + 1)

\* the lookup that falls back on the first locator when none matches
find_asset_map_locator_or_first(assets, uuid) ==
    IF find_from(assets, uuid, 1) = 0 /\ Len(assets) > 0 THEN 1
    ELSE find_from(assets, uuid, 1)

find_asset_map_locator(assets, uuid) == find_from(assets, uuid, 1)

(***************************************************************************)
(* Child demuxer contexts.  A context is NULL or an opened input at read   *)
(* position pos (in units of the file's time base); eof is set once the    *)
(* child has reported the end of its file.                                 *)
(***************************************************************************)
NullCtx == [st |-> "null", pos |-> 0, eof |-> FALSE]
OpenCtx(pos) == [st |-> "open", pos |-> pos, eof |-> FALSE]

\* what opening a child can meet: success, or the failure of
\* avformat_open_input, of avformat_find_stream_info, of avformat_seek_file
OpenOutcomes == {"ok", "open_input_fails", "stream_info_fails", "seek_fails"}

\* IMFVirtualTrackResourcePlaybackCtx
ResourcePlaybackCtx(loc, res, ctx) ==
    [locator |-> loc, resource |-> res, ctx |-> ctx]

\* read position of the child after the seek to the entry point
seek_position(res) ==
    LET tb == FileTimeBase(res.track_file_uuid)
    IN  (res.entry_point * res.edit_rate[2] * tb[2])
            \div (res.edit_rate[1] * tb[1])

\* ret, the context left in the handle, and what became of the input:
\* "held" (open, owned by the handle), "leaked" (opened and the context
\* freed without closing it) or "none"
open_track_resource_context(h, outcome) ==
    IF h.ctx.st = "open"
      THEN [ret |-> OK, ctx |-> h.ctx, input |-> "none"]
    ELSE IF outcome = "open_input_fails"
      THEN [ret |-> ERR_OPEN_INPUT, ctx |-> NullCtx, input |-> "none"]
    ELSE IF outcome = "stream_info_fails"
      THEN [ret |-> ERR_STREAM_INFO, ctx |-> NullCtx, input |-> "leaked"]
    ELSE LET entry_point ==
                 (h.resource.entry_point * h.resource.edit_rate[2] * AV_TIME_BASE)
                     \div h.resource.edit_rate[1]
         IN  IF entry_point # 0 /\ outcome = "seek_fails"
               THEN [ret |-> ERR_SEEK, ctx |-> NullCtx, input |-> "leaked"]
             ELSE [ret |-> OK,
                   ctx |-> OpenCtx(IF entry_point # 0
                                   THEN seek_position(h.resource) ELSE 0),
                   input |-> "held"]

(***************************************************************************)
(* Opening the virtual tracks.  The child demuxers are opened one after    *)
(* the other, so what the environment does to them is told by one failure  *)
(* point fp: the fp.at-th attempt to open a child meets fp.kind, the       *)
(* others succeed (fp.at = 0: all succeed).  n counts the attempts made.   *)
(* An opened input is named <<track index, handle number>>.                *)
(***************************************************************************)
outcome_at(n, fp) == IF n = fp.at THEN fp.kind ELSE "ok"

\* IMFVirtualTrackPlaybackCtx after av_mallocz
NewTrack(track_index) ==
    [index |-> track_index,
     current_timestamp |-> <<0, 1>>,
     duration |-> av_make_q(0, 1),
     resources |-> <<>>,
     current_resource_index |-> 0,
     last_pts |-> 0]

\* the loop over the repetitions of one resource, from repetition i on
RECURSIVE open_repetitions(_, _, _, _, _, _)
open_repetitions(res, loc, i, track, n, fp) ==
    IF i >= res.repeat_count
      THEN [ret |-> OK, track |-> track, n |-> n, leaked |-> 0]
    ELSE LET opened(vt_ctx, r) ==
                 IF r.ret # OK
                   THEN [ret |-> r.ret, track |-> track, n |-> n + 1,
                         leaked |-> IF r.input = "leaked" THEN 1 ELSE 0]
                 ELSE open_repetitions(res, loc, i + 1,
                          [track EXCEPT
                             !.resources = Append(@, [vt_ctx EXCEPT !.ctx = r.ctx]),
                             !.duration = av_add_q(@,
                                 av_make_q(res.duration * res.edit_rate[2],
                                           res.edit_rate[1]))],
                          n + 1, fp)
         IN  opened(ResourcePlaybackCtx(loc, res, NullCtx),
                    open_track_resource_context(
                        ResourcePlaybackCtx(loc, res, NullCtx),
                        outcome_at(n + 1, fp)))

\* the resource opened once whatever its RepeatCount
open_track_file_resource_once(assets, res, track, n, fp) ==
    LET found(asset_locator) ==
            IF asset_locator = 0
              THEN [ret |-> AVERROR_INVALIDDATA, track |-> track, n |-> n,
                    leaked |-> 0]
            ELSE open_repetitions(res, asset_locator, res.repeat_count - 1,
                                  track, n, fp)
    IN  found(find_asset_map_locator(assets, res.track_file_uuid))

open_track_file_resource(assets, res, track, n, fp) ==
    LET found(asset_locator) ==
            IF asset_locator = 0
              THEN [ret |-> AVERROR_INVALIDDATA, track |-> track, n |-> n,
                    leaked |-> 0]
            ELSE open_repetitions(res, asset_locator, 0, track, n, fp)
    IN  found(find_asset_map_locator(assets, res.track_file_uuid))

\* the deinit that closes the child of the current resource only
playback_context_deinit_current_only(track) ==
    {<<track.index, i>> : i \in {j \in 1..Len(track.resources) :
                                    /\ track.resources[j].ctx.st = "open"
                                    /\ j = track.current_resource_index + 1}}

\* the inputs that imf_virtual_track_playback_context_deinit closes
imf_virtual_track_playback_context_deinit(track) ==
    {<<track.index, i>> : i \in {j \in 1..Len(track.resources) :
                                    track.resources[j].ctx.st = "open"}}

\* the inputs a track holds open
TrackInputs(track) ==
    {<<track.index, i>> : i \in {j \in 1..Len(track.resources) :
                                    track.resources[j].ctx.st = "open"}}

\* the loop of open_virtual_track over the resources, from resource i on
RECURSIVE open_resources(_, _, _, _, _, _)
open_resources(assets, virtual_track, i, track, n, fp) ==
    IF i > Len(virtual_track)
      THEN [ret |-> OK, track |-> track, n |-> n, leaked |-> 0]
    ELSE LET opened(r) ==
                 IF r.ret # OK THEN r
                 ELSE open_resources(assets, virtual_track, i + 1, r.track, r.n, fp)
         IN  opened(open_track_file_resource(assets, virtual_track[i], track, n, fp))

\* c is [tracks, inputs, leaked]: the tracks of the context and the inputs
\* open so far
open_virtual_track(c, assets, virtual_track, track_index, n, fp) ==
    LET appended(r, track) ==
            [ret |-> OK, n |-> r.n,
             c |-> [c EXCEPT !.tracks = Append(@, track),
                             !.inputs = @ \cup TrackInputs(track)]]
        opened(r) ==
            IF r.ret # OK
              THEN [ret |-> r.ret, n |-> r.n,
                    c |-> [c EXCEPT
                             !.inputs = (@ \cup TrackInputs(r.track))
                                 \ imf_virtual_track_playback_context_deinit(r.track),
                             !.leaked = @ + r.leaked]]
            ELSE appended(r, [r.track EXCEPT
                                !.current_timestamp =
                                    av_make_q(0, r.track.duration[2])])
    IN  opened(open_resources(assets, virtual_track, 1, NewTrack(track_index),
                              n, fp))

\* time base of the first stream of the child of a handle
child_time_base(h) == FileTimeBase(h.resource.track_file_uuid)

\* AVStream as avformat_new_stream leaves it, its id set
NewStream(id) ==
    [id |-> id, time_base |-> <<1, 90000>>, duration |-> 0, cur_dts |-> 0]

\* what creating the outer streams can meet: sf.at = 0: nothing; otherwise
\* for the sf.at-th track avformat_new_stream ("new_stream") or
\* avcodec_parameters_copy ("copy") fails
StreamFailKinds == {"new_stream", "copy"}

\* the loop over the tracks, from track i (1-based) on
RECURSIVE set_streams_from(_, _, _, _)
set_streams_from(tracks, i, streams, sf) ==
    IF i > Len(tracks) THEN [ret |-> OK, streams |-> streams]
    ELSE IF sf.at = i /\ sf.kind = "new_stream"
      THEN [ret |-> OK, streams |-> streams]
    ELSE LET asset_stream == NewStream(i - 1)
             tb == child_time_base(tracks[i].resources[1])
         IN  IF sf.at = i /\ sf.kind = "copy"
               THEN [ret |-> ERR_COPY_PARAMS,
                     streams |-> Append(streams, asset_stream)]
             ELSE set_streams_from(tracks, i + 1,
                      Append(streams,
                          [asset_stream EXCEPT
                             !.time_base = tb,
                             !.duration = q2int(av_mul_q(tracks[i].duration,
                                                         av_inv_q(tb)))]),
                      sf)

set_context_streams_from_tracks(tracks, sf) ==
    set_streams_from(tracks, 1, <<>>, sf)

\* the loop over the main audio tracks, from audio track i (1-based) on
RECURSIVE open_audio_tracks(_, _, _, _, _, _, _)
open_audio_tracks(c, assets, audio, i, track_index, n, fp) ==
    IF i > Len(audio) THEN [ret |-> OK, n |-> n, c |-> c]
    ELSE LET opened(r) ==
                 IF r.ret # OK THEN r
                 ELSE open_audio_tracks(r.c, assets, audio, i + 1, track_index + 1,
                                        r.n, fp)
         IN  opened(open_virtual_track(c, assets, audio[i], track_index, n, fp))

\* ret, the tracks, the open and the leaked inputs, and the outer streams
open_cpl_tracks(the_cpl, assets, fp, sf) ==
    LET c0 == [tracks |-> <<>>, inputs |-> {}, leaked |-> 0]
        with_streams(aud, s) ==
            [ret |-> s.ret, c |-> aud.c, streams |-> s.streams]
        audio_opened(aud) ==
            IF aud.ret # OK
              THEN [ret |-> aud.ret, c |-> aud.c, streams |-> <<>>]
            ELSE with_streams(aud, set_context_streams_from_tracks(aud.c.tracks, sf))
        image_opened(img) ==
            IF img.ret # OK THEN audio_opened(img)
            ELSE audio_opened(
                     open_audio_tracks(img.c, assets, the_cpl.main_audio_tracks, 1,
                                       Len(the_cpl.main_image_2d_track), img.n, fp))
    IN  IF Len(the_cpl.main_image_2d_track) > 0
          THEN image_opened(
                   open_virtual_track(c0, assets, the_cpl.main_image_2d_track[1],
                                      0, 0, fp))
        ELSE image_opened([ret |-> OK, n |-> 0, c |-> c0])

(***************************************************************************)
(* The packet pump.                                                        *)
(***************************************************************************)
\* the scan over the tracks from track i (1-based) on; best is the track
\* found so far (0: the pointer has not been assigned)
RECURSIVE min_track_from(_, _, _, _)
min_track_from(tracks, i, best, minimum_timestamp) ==
    IF i > Len(tracks) THEN best
    ELSE IF av_cmp_q(tracks[i].current_timestamp, minimum_timestamp) < 0
      THEN min_track_from(tracks, i + 1, i, tracks[i].current_timestamp)
    ELSE min_track_from(tracks, i + 1, best, minimum_timestamp)

\* the scan with "not later than" for "earlier than": among tracks at equal
\* timestamps the last one wins
RECURSIVE min_track_from_le(_, _, _, _)
min_track_from_le(tracks, i, best, minimum_timestamp) ==
    IF i > Len(tracks) THEN best
    ELSE IF av_cmp_q(tracks[i].current_timestamp, minimum_timestamp) <= 0
      THEN min_track_from_le(tracks, i + 1, i, tracks[i].current_timestamp)
    ELSE min_track_from_le(tracks, i + 1, best, minimum_timestamp)

get_next_track_with_last_minimum(tracks) ==
    min_track_from_le(tracks, 1, 0, av_make_q(INT32_MAX, 1))

\* position (1-based) of the selected track in tracks, 0 when the scan
\* assigns nothing and the returned pointer is uninitialised
get_next_track_with_minimum_timestamp(tracks) ==
    min_track_from(tracks, 1, 0, av_make_q(INT32_MAX, 1))

\* the walk over the handles of a track from handle i (1-based) on: the
\* first handle whose cumulated end covers current_timestamp + one edit
\* unit, 0 when there is none
RECURSIVE covering_from(_, _, _, _)
covering_from(track, i, cumulated_duration, edit_unit_duration) ==
    IF i > Len(track.resources) THEN 0
    ELSE LET next(cum) ==
                 IF av_cmp_q(av_add_q(track.current_timestamp,
                                      edit_unit_duration), cum) <= 0
                   THEN i
                 ELSE covering_from(track, i + 1, cum, edit_unit_duration)
         IN  CallByValue(next,
                 av_add_q(cumulated_duration,
                          av_make_q(track.resources[i].resource.duration
                                        * edit_unit_duration[1],
                                    edit_unit_duration[2])))

\* the walk stopped after the first handle: the later handles of the track
\* are never selected
covering_first_handle_only(track) ==
    LET first(i) == IF i = 1 THEN 1 ELSE 0
        walked(edit_unit_duration) ==
            first(covering_from(track, 1, av_make_q(0, edit_unit_duration[2]),
                                edit_unit_duration))
    IN  walked(av_inv_q(track.resources[1].resource.edit_rate))

covering_resource(track) ==
    LET edit_unit_duration == av_inv_q(track.resources[1].resource.edit_rate)
    IN  covering_from(track, 1, av_make_q(0, edit_unit_duration[2]),
                      edit_unit_duration)

\* res: the handle to read (1-based), 0 for NULL; the track, the open
\* inputs and the leaked inputs as the call leaves them
get_resource_context_for_timestamp(track, inputs, outcome) ==
    LET cur == track.current_resource_index + 1
        switched(i, closed, r, inp, lk) ==
            IF r.ret # OK
              THEN [res |-> 0,
                    track |-> [closed EXCEPT !.resources[i].ctx = r.ctx],
                    inputs |-> inp, leaked |-> lk]
            ELSE [res |-> i,
                  track |-> [closed EXCEPT !.resources[i].ctx = r.ctx,
                                           !.current_resource_index = i - 1],
                  inputs |-> inp, leaked |-> lk]
        reopened(i, closed, r) ==
            switched(i, closed, r,
                     (inputs \ {<<track.index, cur>>})
                         \cup (IF r.input = "held"
                               THEN {<<track.index, i>>} ELSE {}),
                     IF r.input = "leaked" THEN 1 ELSE 0)
        closed_current(i, closed) ==
            CallByValue(LAMBDA r : reopened(i, closed, r),
                        open_track_resource_context(closed.resources[i], outcome))
        covered(i) ==
            IF i = 0
              THEN [res |-> 0, track |-> track, inputs |-> inputs, leaked |-> 0]
            ELSE IF cur = i
              THEN [res |-> cur, track |-> track, inputs |-> inputs, leaked |-> 0]
            ELSE closed_current(i, [track EXCEPT !.resources[cur].ctx = NullCtx])
    IN  CallByValue(covered, covering_resource(track))

\* AVPacket
Packet(pts, dts, duration, stream_index) ==
    [pts |-> pts, dts |-> dts, duration |-> duration,
     stream_index |-> stream_index]
NoPkt == [pts |-> -1, dts |-> -1, duration |-> -1, stream_index |-> -1]

\* the rewrite with the pts taken after the advance of last_pts
rewrite_packet_after_advance(track, child_dts, duration, cur_dts) ==
    Packet(track.last_pts + duration,
           (IF child_dts < cur_dts /\ track.last_pts > 0
            THEN cur_dts ELSE child_dts)
               - track.resources[track.current_resource_index + 1]
                     .resource.entry_point,
           duration,
           track.index)

\* the rewrite without the clamp to cur_dts
rewrite_packet_unclamped(track, child_dts, duration, cur_dts) ==
    Packet(track.last_pts,
           child_dts - track.resources[track.current_resource_index + 1]
                           .resource.entry_point,
           duration,
           track.index)

\* the packet as the pump rewrites it: child_dts and duration are the
\* child's, cur_dts is the outer stream's
rewrite_packet(track, child_dts, duration, cur_dts) ==
    LET dts == IF child_dts < cur_dts /\ track.last_pts > 0
               THEN cur_dts ELSE child_dts
    IN  Packet(track.last_pts,
               dts - track.resources[track.current_resource_index + 1]
                         .resource.entry_point,
               duration,
               track.index)

\* the cursors with current_timestamp left where it was
advance_track_pts_only(track, res, duration) ==
    [track EXCEPT !.last_pts = @ + duration,
                  !.resources[res].ctx.pos = @ + duration]

\* the track cursors after a packet of this duration read from handle res
advance_track(track, res, duration) ==
    LET tb == child_time_base(track.resources[res])
    IN  [track EXCEPT
           !.current_timestamp = av_add_q(@, av_make_q(duration * tb[1], tb[2])),
           !.last_pts = @ + duration,
           !.resources[res].ctx.pos = @ + duration]

\* cur_dts of the outer stream once the packet has gone through the generic
\* demuxing layer: the dts position reached by the packets emitted so far
cur_dts_after(p) == p.dts + p.duration

(***************************************************************************)
(* State.                                                                  *)
(***************************************************************************)
VARIABLES
    pc,                 \* "init", "opened", "open_failed", "closed",
                        \* "crashed" or "hung"
    cpl_doc,            \* input: the CPL document at the URL
    asset_docs,         \* input: the Asset Map documents, in option order
    base_url,           \* c->base_url is allocated
    avio_opts,          \* c->avio_opts is allocated
    cpl,                \* c->cpl: <<>> for NULL, or <<the parsed CPL>>
    asset_locator_map,  \* c->asset_locator_map.assets
    tracks,             \* c->tracks
    streams,            \* s->streams
    inputs,             \* the child inputs that are open
    leaked,             \* inputs opened whose context was freed unclosed
    header_ret,         \* what imf_read_header returned ("none" before)
    ret,                \* what the last imf_read_packet returned
    pkt,                \* the packet it returned, NoPkt when none
    last_emitted,       \* per stream index, the last packet emitted on it
    emitted_time,       \* per stream index, the sum of duration x time_base
                        \* of the packets emitted on it
    freed,              \* what imf_close released, in order
    call                \* op: the last call; the other fields: what the
                        \* last imf_read_header or imf_read_packet met

vars == <<pc, cpl_doc, asset_docs, base_url, avio_opts, cpl,
          asset_locator_map, tracks, streams, inputs, leaked, header_ret,
          ret, pkt, last_emitted, emitted_time, freed, call>>

NoCall ==
    [op |-> "none", interrupted |-> FALSE, line |-> 0, child_failed |-> 0,
     probe |-> FALSE, child_eofs |-> 0]

\* uuid of the track file whose time base is the inverse of this edit rate
CoherentUuid(rate) == IF rate = <<1, 1>> THEN 1 ELSE 2
\* a UUID that no Asset Map lists
MissingUuid == CHOOSE u \in 1..(Cardinality(UUIDs) + 1) : u \notin UUIDs

\* the resource of a track of one resource: coherent with its track file,
\* or referring to a track file that no Asset Map lists
OneResource(r, e, d, rep, missing) ==
    TrackFileResource(r, e, d, rep,
                      IF missing THEN MissingUuid ELSE CoherentUuid(r))

\* compositions of an optional image track and 0..MaxAudio audio tracks,
\* each of one unrepeated resource
SimpleResources ==
    {OneResource(r, 0, d, 1, missing) :
        r \in EditRates, d \in Durations, missing \in BOOLEAN}

Compositions ==
    [main_image_2d_track : {<<>>} \cup {<<<<r>>>> : r \in SimpleResources},
     main_audio_tracks :
        {<<>>} \cup SeqsUpTo({<<r>> : r \in SimpleResources}, MaxAudio)]

\* compositions of one image track of 1..MaxRes unrepeated resources
TrackResources ==
    {OneResource(r, e, 2, 1, FALSE) : r \in EditRates, e \in EntryPoints}
    \cup {OneResource(<<1, 1>>, 0, 2, 1, TRUE)}

SingleTracks ==
    [main_image_2d_track : {<<t>> : t \in SeqsUpTo(TrackResources, MaxRes)},
     main_audio_tracks : {<<>>}]

\* compositions of one image track of one resource repeated 1..MaxRepeat
\* times
RepeatedResources ==
    {OneResource(r, e, d, rep, FALSE) :
        r \in EditRates, e \in EntryPoints, d \in Durations,
        rep \in 1..MaxRepeat}

RepeatedTracks ==
    [main_image_2d_track : {<<<<r>>>> : r \in RepeatedResources},
     main_audio_tracks : {<<>>}]

\* the state before read_header, the CPL one of cpls and the Asset Map
\* documents one of docs
InitOf(cpls, docs) ==
    /\ pc = "init"
    /\ cpl_doc \in cpls
    /\ asset_docs \in docs
    /\ base_url = FALSE
    /\ avio_opts = FALSE
    /\ cpl = <<>>
    /\ asset_locator_map = <<>>
    /\ tracks = <<>>
    /\ streams = <<>>
    /\ inputs = {}
    /\ leaked = 0
    /\ header_ret = "none"
    /\ ret = "none"
    /\ pkt = NoPkt
    /\ last_emitted = [i \in 0..MaxAudio |-> NoPkt]
    /\ emitted_time = [i \in 0..MaxAudio |-> <<0, 1>>]
    /\ freed = <<>>
    /\ call = NoCall

\* the Asset Map lists both track files
InitWith(cpls) == InitOf(cpls, {<<AssetMapDoc(<<1, 2>>)>>})

Init == InitWith(Compositions \cup SingleTracks \cup RepeatedTracks)

\* compositions of an image track of one resource at edit rate 1/1 and an
\* audio track of two resources of duration 2 at one edit rate
PairedTracks ==
    [main_image_2d_track :
        {<<<<OneResource(<<1, 1>>, 0, d, 1, FALSE)>>>> : d \in Durations},
     main_audio_tracks :
        {<<<<a, a>>>> : a \in {OneResource(r, 0, 2, 1, FALSE) : r \in EditRates}}]

\* the compositions played with children that deliver one packet per edit
\* unit: the resources of a track share one edit rate, and every track file
\* has the time base of its resource's edit rate
UnitCompositions == Compositions \cup RepeatedTracks \cup PairedTracks

InitUnit == InitWith(UnitCompositions)

\* compositions of one image track of one resource of duration 1 repeated
\* MaxRepeat + 1 times: a packet of duration 2 takes the cursor past a whole
\* repetition
LongRepeatTracks ==
    [main_image_2d_track :
        {<<<<OneResource(r, 0, 1, MaxRepeat + 1, FALSE)>>>> : r \in EditRates},
     main_audio_tracks : {<<>>}]

InitRepeat == InitWith(LongRepeatTracks \cup RepeatedTracks)

\* the children that an AssetList can have: a complete Asset, an element of
\* another name, and an Asset without its Id, its ChunkList, its Chunk or
\* its Path
AssetListChildren ==
    {AssetElement(1),
     [AssetElement(1) EXCEPT !.name = "Other"],
     [AssetElement(1) EXCEPT !.Id = NoUuid],
     [AssetElement(1) EXCEPT !.ChunkList = FALSE],
     [AssetElement(1) EXCEPT !.Chunk = FALSE],
     [AssetElement(1) EXCEPT !.Path = NoPath]}

\* Asset Map documents with or without an AssetList of 0..MaxAssets children
AssetMapDocs ==
    [root : {"AssetMap"}, AssetList : BOOLEAN,
     children : {<<>>} \cup SeqsUpTo(AssetListChildren, MaxAssets)]

\* compositions of one image track of one resource of track file 1
SingleResourceTracks ==
    [main_image_2d_track : {<<<<OneResource(<<1, 1>>, 0, 1, 1, FALSE)>>>>},
     main_audio_tracks : {<<>>}]

InitAssetMap == InitOf(SingleResourceTracks, {<<d>> : d \in AssetMapDocs})

(***************************************************************************)
(* imf_read_header                                                         *)
(***************************************************************************)
VirtualTracks(c) == c.main_image_2d_track \o c.main_audio_tracks

RECURSIVE SumRepeats(_, _)
SumRepeats(vt, i) ==
    IF i > Len(vt) THEN 0 ELSE vt[i].repeat_count + SumRepeats(vt, i + 1)

RECURSIVE TotalHandles(_, _)
TotalHandles(vts, i) ==
    IF i > Len(vts) THEN 0
    ELSE SumRepeats(vts[i], 1) + TotalHandles(vts, i + 1)

\* the errors a child demuxer that cannot be opened is left with
ChildErrors == {ERR_OPEN_INPUT, ERR_STREAM_INFO, ERR_SEEK}

NoFail == [at |-> 0, kind |-> "ok"]
FailPoints(c) ==
    {NoFail} \cup [at : 1..TotalHandles(VirtualTracks(c), 1),
                   kind : OpenOutcomes \ {"ok"}]
NoStreamFail == [at |-> 0, kind |-> "none"]
StreamFails(c) ==
    {NoStreamFail} \cup [at : 1..Len(VirtualTracks(c)), kind : StreamFailKinds]

\* a missing Path is read only in a document that has an Asset without one
NullPathOutcomesFor(docs) ==
    IF \E d \in 1..Len(docs) : \E k \in 1..Len(docs[d].children) :
           docs[d].children[k].Path = NoPath
      THEN NullPathOutcomes ELSE {"crash"}

imf_read_header ==
    /\ pc = "init"
    /\ \E cpl_ok \in BOOLEAN, fp \in FailPoints(cpl_doc), sf \in StreamFails(cpl_doc),
          np \in NullPathOutcomesFor(asset_docs) :
         \E am \in {parse_assetmaps(asset_docs, 1, <<>>, np)} :
         \E r \in {open_cpl_tracks(cpl_doc, am.assets, fp, sf)} :
             /\ base_url' = TRUE
             /\ avio_opts' = TRUE
             /\ IF ~cpl_ok
                  THEN /\ cpl' = <<>>
                       /\ header_ret' = ERR_CPL
                       /\ pc' = "open_failed"
                       /\ call' = [NoCall EXCEPT !.op = "read_header"]
                       /\ UNCHANGED <<asset_locator_map, tracks, streams,
                                      inputs, leaked>>
                ELSE IF am.ret # OK
                  THEN /\ cpl' = <<cpl_doc>>
                       /\ asset_locator_map' = am.assets
                       /\ header_ret' = am.ret
                       /\ pc' = IF am.ret = HANG THEN "hung"
                                ELSE IF am.ret = CRASH THEN "crashed"
                                ELSE "open_failed"
                       /\ call' = [NoCall EXCEPT !.op = "read_header"]
                       /\ UNCHANGED <<tracks, streams, inputs, leaked>>
                ELSE /\ cpl' = <<cpl_doc>>
                     /\ asset_locator_map' = am.assets
                     /\ tracks' = r.c.tracks
                     /\ streams' = r.streams
                     /\ inputs' = r.c.inputs
                     /\ leaked' = r.c.leaked
                     /\ header_ret' = r.ret
                     /\ pc' = IF r.ret = OK THEN "opened" ELSE "open_failed"
                     /\ call' = [NoCall EXCEPT
                                   !.op = "read_header",
                                   !.child_failed =
                                       IF r.ret \in ChildErrors THEN fp.at ELSE 0]
    /\ UNCHANGED <<cpl_doc, asset_docs, ret, pkt, last_emitted, emitted_time,
                   freed>>

(***************************************************************************)
(* imf_read_packet                                                         *)
(***************************************************************************)
\* what the call meets once it has a handle to read: a positive interrupt
\* probe, or else av_read_frame on the child delivering a packet of some
\* duration, the end of the file, or an error
ChildOutcomes ==
    [kind : {"packet"}, duration : PktDurations]
    \cup [kind : {"interrupt", "eof", "error"}, duration : {0}]

\* what a read through an invalid pointer can do: fault, or go on with what
\* the memory holds
UBOutcomes == {"crash", "garbage"}
GarbageDts == {0, 3}

ReadCall(line, interrupted) ==
    [op |-> "read_packet", interrupted |-> interrupted, line |-> line,
     child_failed |-> 0, probe |-> FALSE, child_eofs |-> 0]

\* the return of imf_read_packet with no packet
Returns(code, line, interrupted, trk, inp, lk) ==
    [pc |-> "opened", ret |-> code, pkt |-> NoPkt, tracks |-> trk,
     inputs |-> inp, leaked |-> lk, call |-> ReadCall(line, interrupted)]

\* the call does not return
Faults(trk, inp, lk) ==
    [pc |-> "crashed", ret |-> CRASH, pkt |-> NoPkt, tracks |-> trk,
     inputs |-> inp, leaked |-> lk, call |-> ReadCall(0, FALSE)]

\* the end test that never finds the track at its end
track_at_end_never(track) == FALSE

\* the end test of imf_read_packet on the selected track
track_at_end(track) == av_cmp_q(track.current_timestamp, track.duration) = 0

\* the edit unit of the first resource of the track
first_resource_edit_unit(track) ==
    av_inv_q(track.resources[1].resource.edit_rate)

\* edit_unit_duration of imf_read_packet when no resource is returned: the
\* edit unit of the resource the track is at
no_resource_edit_unit(track) ==
    av_inv_q(track.resources[track.current_resource_index + 1]
                 .resource.edit_rate)

\* imf_read_packet on the state (tracks, streams, inputs, leaked), meeting
\* this interrupt probe or child read, this child open (on a switch of
\* resource) and these outcomes of undefined reads
read_packet(trks, strs, inp, lk, child, outcome, ub, garbage) ==
    LET emitted(ti, g, t1, lk1, ctx, cur_dts) ==
            [pc |-> "opened", ret |-> OK,
             pkt |-> rewrite_packet(g.track, ctx.pos, child.duration, cur_dts),
             tracks |-> [t1 EXCEPT
                           ![ti] = advance_track(g.track, g.res, child.duration)],
             inputs |-> g.inputs, leaked |-> lk1,
             call |-> ReadCall(790, FALSE)]
        pulled(ti, g, t1, lk1, ctx) ==
            IF ctx.st # "open"
              THEN Faults(t1, g.inputs, lk1)
            ELSE IF g.track.index >= Len(strs) /\ ub = "crash"
              THEN Faults(t1, g.inputs, lk1)
            ELSE IF ctx.eof \/ child.kind = "eof"
              THEN Returns(AVERROR_EOF, 801, FALSE,
                           [t1 EXCEPT ![ti].resources[g.res].ctx.eof = TRUE],
                           g.inputs, lk1)
            ELSE IF child.kind = "error"
              THEN Returns(ERR_READ_FRAME, 797, FALSE, t1, g.inputs, lk1)
            ELSE emitted(ti, g, t1, lk1, ctx,
                         IF g.track.index >= Len(strs) THEN garbage
                         ELSE strs[g.track.index + 1].cur_dts)
        no_resource(g, t1, lk1, edit_unit_duration) ==
            IF av_cmp_q(av_add_q(g.track.current_timestamp, edit_unit_duration),
                        g.track.duration) > 0
              THEN Returns(AVERROR_EOF, 753, FALSE, t1, g.inputs, lk1)
            ELSE Returns(AVERROR_STREAM_NOT_FOUND, 756, FALSE, t1, g.inputs, lk1)
        located(ti, g, t1, lk1) ==
            IF g.res = 0
              THEN no_resource(g, t1, lk1, no_resource_edit_unit(g.track))
            ELSE IF child.kind = "interrupt"
              THEN Returns(AVERROR_EOF, 801, TRUE, t1, g.inputs, lk1)
            ELSE pulled(ti, g, t1, lk1, g.track.resources[g.res].ctx)
        resource_for(ti, g) ==
            located(ti, g, [trks EXCEPT ![ti] = g.track], lk + g.leaked)
        selected(ti) ==
            IF ti = 0
              THEN IF ub = "crash" THEN Faults(trks, inp, lk)
                   ELSE Returns(AVERROR_EOF, 744, FALSE, trks, inp, lk)
            ELSE IF track_at_end(trks[ti])
              THEN Returns(AVERROR_EOF, 744, FALSE, trks, inp, lk)
            ELSE CallByValue(LAMBDA g : resource_for(ti, g),
                     get_resource_context_for_timestamp(trks[ti], inp, outcome))
    IN  CallByValue(selected, get_next_track_with_minimum_timestamp(trks))

\* the environment outcomes the call can consult in this state: a child is
\* opened only on a switch to a handle without a context, and an invalid
\* pointer is read only when no track is selected or a track has no stream
OpenOutcomesFor(trks) ==
    LET covered(ti, i) ==
            IF i # 0 /\ i # trks[ti].current_resource_index + 1
                     /\ trks[ti].resources[i].ctx.st # "open"
              THEN OpenOutcomes ELSE {"ok"}
        selected(ti) ==
            IF ti = 0 THEN {"ok"} ELSE covered(ti, covering_resource(trks[ti]))
    IN  selected(get_next_track_with_minimum_timestamp(trks))

UBOutcomesFor(trks, strs) ==
    IF Len(trks) > Len(strs) \/ get_next_track_with_minimum_timestamp(trks) = 0
      THEN UBOutcomes \X GarbageDts ELSE {<<"garbage", 0>>}

\* the time an emitted packet lasts: its duration in the time base of the
\* child it was read from, the handle its track is at after the call
PacketTime(p, trks) ==
    LET of_handle(h) ==
            av_make_q(p.duration * child_time_base(h)[1], child_time_base(h)[2])
        of_track(t) == of_handle(t.resources[t.current_resource_index + 1])
    IN  of_track(trks[p.stream_index + 1])

\* the call record of a read: probe tells whether the caller's interrupt
\* probe was positive while the call ran (interrupted: the call consulted it,
\* line 759), child_eofs counts the calls in a row that ended on the end of
\* the child's file (lines 770 and 801)
ReadRecord(c, child) ==
    [c EXCEPT !.probe = (child.kind = "interrupt"),
              !.child_eofs =
                  IF c.line = 801 /\ ~c.interrupted
                    THEN IF call.child_eofs < MaxEofStreak
                           THEN call.child_eofs + 1 ELSE MaxEofStreak
                  ELSE 0]

\* imf_read_packet, the child read delivering one of these outcomes
ReadPacket(children) ==
    /\ pc = "opened"
    /\ \E child \in children,
          outcome \in OpenOutcomesFor(tracks), ub \in UBOutcomesFor(tracks, streams) :
         \E r \in {read_packet(tracks, streams, inputs, leaked,
                               child, outcome, ub[1], ub[2])} :
             /\ pc' = r.pc
             /\ ret' = r.ret
             /\ pkt' = r.pkt
             /\ tracks' = r.tracks
             /\ inputs' = r.inputs
             /\ leaked' = r.leaked
             /\ call' = ReadRecord(r.call, child)
             /\ IF r.ret = OK
                  THEN /\ last_emitted' =
                            [last_emitted EXCEPT ![r.pkt.stream_index] = r.pkt]
                       /\ emitted_time' =
                            [emitted_time EXCEPT ![r.pkt.stream_index] =
                                av_add_q(@, PacketTime(r.pkt, r.tracks))]
                       /\ IF r.pkt.stream_index < Len(streams)
                            THEN streams' = [streams EXCEPT
                                     ![r.pkt.stream_index + 1].cur_dts =
                                         cur_dts_after(r.pkt)]
                          ELSE UNCHANGED streams
                ELSE UNCHANGED <<last_emitted, emitted_time, streams>>
    /\ UNCHANGED <<cpl_doc, asset_docs, base_url, avio_opts, cpl,
                   asset_locator_map, header_ret, freed>>

imf_read_packet == ReadPacket(ChildOutcomes)

(***************************************************************************)
(* imf_close                                                               *)
(***************************************************************************)
\* the release in the reverse of the allocation order
imf_close_order_reversed ==
    <<"tracks", "asset_locator_map", "cpl", "base_url", "avio_opts">>

\* what imf_close releases, in the order of its statements
imf_close_order ==
    <<"avio_opts", "base_url", "asset_locator_map", "cpl", "tracks">>

imf_close ==
    /\ pc \in {"opened", "open_failed"}
    /\ pc' = "closed"
    /\ freed' = imf_close_order
    /\ avio_opts' = FALSE
    /\ base_url' = FALSE
    /\ asset_locator_map' = <<>>
    /\ cpl' = <<>>
    /\ inputs' = inputs \ UNION {imf_virtual_track_playback_context_deinit(tracks[i]) :
                                    i \in 1..Len(tracks)}
    /\ tracks' = <<>>
    /\ call' = [call EXCEPT !.op = "close"]
    /\ streams' = <<>>
    /\ ret' = "none"
    /\ pkt' = NoPkt
    /\ last_emitted' = [i \in DOMAIN last_emitted |-> NoPkt]
    /\ emitted_time' = [i \in DOMAIN emitted_time |-> <<0, 1>>]
    /\ UNCHANGED <<cpl_doc, asset_docs, leaked, header_ret>>

Next == imf_read_header \/ imf_read_packet \/ imf_close

\* the child of every read delivers a packet of duration 1 in a time base of
\* one edit unit
UnitOutcomes == {[kind |-> "packet", duration |-> 1]}

imf_read_unit_packet == ReadPacket(UnitOutcomes)

NextUnit == imf_read_header \/ imf_read_unit_packet \/ imf_close

\* every child read delivers a packet that lasts at least one unit of the
\* child's time base: no error, no end of file, no interrupt
LiveOutcomes == [kind : {"packet"}, duration : PktDurations \ {0}]

imf_read_live_packet == ReadPacket(LiveOutcomes)

NextLive == imf_read_header \/ imf_read_live_packet \/ imf_close

Spec == Init /\ [][Next]_vars

\* the caller reads again as long as a read can change something
SpecLive == Init /\ [][NextLive]_vars /\ WF_vars(imf_read_live_packet)

SpecUnit == InitUnit /\ [][NextUnit]_vars

SpecRepeat == InitRepeat /\ [][Next]_vars

SpecAssetMap == InitAssetMap /\ [][Next]_vars

(***************************************************************************)
(* Properties.                                                             *)
(***************************************************************************)
\* exact comparison of two rationals with positive denominators
RatLess(a, b) == a[1] * b[2] < b[1] * a[2]
RatLeq(a, b) == a[1] * b[2] <= b[1] * a[2]

\* the step is an imf_read_packet call that returns a packet
EmitsPacket == pc = "opened" /\ call'.op = "read_packet" /\ ret' = OK

\* the track file UUIDs that the Asset Map documents list
ListedUuids ==
    UNION {{asset_docs[d].children[k].Id :
                k \in 1..Len(asset_docs[d].children)} : d \in 1..Len(asset_docs)}

\* some resource of a virtual track of the CPL refers to a track file that
\* no Asset Map lists
MissingReference ==
    \E t \in 1..Len(VirtualTracks(cpl_doc)) :
        \E i \in 1..Len(VirtualTracks(cpl_doc)[t]) :
            VirtualTracks(cpl_doc)[t][i].track_file_uuid \notin ListedUuids

\* the open attempts that open the first handle of a virtual track
FirstHandleAttempts ==
    {1 + TotalHandles(SubSeq(VirtualTracks(cpl_doc), 1, k - 1), 1) :
        k \in 1..Len(VirtualTracks(cpl_doc))}

\* C1: absent an interrupt, read_packet returns EndOfStream only when every
\* track has reached its declared end, also when the tracks have different
\* durations.  Stated for the return the pump makes on finding the selected
\* track at its duration (imfdec.c:743-744), and with "reached its end" read
\* as current_timestamp >= duration.
C1_EndOfStreamOnlyWhenEveryTrackEnded ==
    (/\ pc = "opened"
     /\ call.op = "read_packet"
     /\ ret = AVERROR_EOF
     /\ ~call.interrupted
     /\ call.line = 744
     /\ Len(tracks) > 0)
        => \A i \in 1..Len(tracks) :
               RatLeq(tracks[i].duration, tracks[i].current_timestamp)

\* C2: on every read_packet call that returns a packet, the track the packet
\* was read from had, before the call, a current_timestamp not above that of
\* any other track and strictly below that of every track of lower index.
C2_LeastTimestampTrackIsAdvanced ==
    [][EmitsPacket =>
         \A j \in 1..Len(tracks) :
            /\ RatLeq(tracks[pkt'.stream_index + 1].current_timestamp,
                      tracks[j].current_timestamp)
            /\ (j < pkt'.stream_index + 1 =>
                    RatLess(tracks[pkt'.stream_index + 1].current_timestamp,
                            tracks[j].current_timestamp))]_vars

\* C2 witness: with an image and an audio track of different time bases the
\* audio track, behind the image track, has been read
C2_Witness ==
    /\ pc = "opened"
    /\ ret = OK
    /\ Len(tracks) = 2
    /\ pkt.stream_index = 1
    /\ pkt.duration = 1
    /\ tracks[1].current_timestamp = <<1, 1>>
    /\ tracks[2].current_timestamp = <<1, 2>>

\* C3: the pts of an emitted packet is the last_pts its track had before the
\* call, last_pts grows by the packet's duration, and the pts is not below
\* the pts of the packet emitted before it on the same track.
C3_PtsIsPreAdvanceLastPts ==
    [][EmitsPacket =>
         /\ pkt'.pts = tracks[pkt'.stream_index + 1].last_pts
         /\ tracks'[pkt'.stream_index + 1].last_pts =
                tracks[pkt'.stream_index + 1].last_pts + pkt'.duration
         /\ (last_emitted[pkt'.stream_index] # NoPkt =>
                 pkt'.pts >= last_emitted[pkt'.stream_index].pts)]_vars

\* C3 witness: a packet of the second handle of a track (a later resource or
\* a repetition) has been emitted after packets of the first
C3_Witness ==
    /\ pc = "opened"
    /\ ret = OK
    /\ pkt.pts > 0
    /\ tracks[pkt.stream_index + 1].current_resource_index > 0

\* C4: on each track the dts of an emitted packet is not below the dts of the
\* packet emitted before it on that track, every track having its outer
\* stream, whose cur_dts is the dts position reached by the packets emitted.
C4_DtsNeverRegresses ==
    [][(EmitsPacket /\ Len(streams) = Len(tracks)
            /\ last_emitted[pkt'.stream_index] # NoPkt)
         => pkt'.dts >= last_emitted[pkt'.stream_index].dts]_vars

\* C5: in every state each track has at most one resource playback handle
\* whose child demuxer is open.
C5_AtMostOneOpenChildPerTrack ==
    \A i \in 1..Len(tracks) : Cardinality(TrackInputs(tracks[i])) <= 1

\* C6: after a successful open there is exactly one outer stream per virtual
\* track of the CPL, stream i standing for the i-th virtual track (the image
\* track first, the audio tracks in CPL order), and an emitted packet carries
\* the index of an existing track as stream_index.
C6_OneStreamPerVirtualTrack ==
    pc = "opened" =>
        /\ Len(streams) = Len(VirtualTracks(cpl_doc))
        /\ Len(tracks) = Len(VirtualTracks(cpl_doc))
        /\ \A i \in 1..Len(streams) : streams[i].id = i - 1
        /\ \A i \in 1..Len(tracks) :
              /\ tracks[i].index = i - 1
              /\ tracks[i].resources[1].resource = VirtualTracks(cpl_doc)[i][1]
        /\ (ret = OK => pkt.stream_index \in 0..(Len(tracks) - 1))

C8_OpenNeedsOnlyFirstResources ==
    (/\ header_ret \notin {"none", ERR_CPL, ERR_COPY_PARAMS}
     /\ ~MissingReference
     /\ call.child_failed \notin FirstHandleAttempts)
        => header_ret = OK

C10_NoChildOpenAfterClose ==
    pc = "closed" => inputs = {} /\ (header_ret = OK => leaked = 0)

\* C10 witness: a track of several handles closed right after an interrupted
\* read
C10_Witness ==
    /\ pc = "closed"
    /\ header_ret = OK
    /\ call.interrupted
    /\ Len(cpl_doc.main_image_2d_track) = 1
    /\ Len(cpl_doc.main_image_2d_track[1]) > 1

\* C11: on every read_packet call made while the caller's interrupt probe is
\* positive and some track has not reached its duration, the call returns
\* AVERROR_EOF with no packet and leaves current_timestamp and last_pts of
\* every track as they were.
C11_InterruptReturnsEndOfStream ==
    [][(/\ pc = "opened"
        /\ call'.op = "read_packet"
        /\ call'.probe
        /\ get_next_track_with_minimum_timestamp(tracks) # 0
        /\ \E i \in 1..Len(tracks) :
               av_cmp_q(tracks[i].current_timestamp, tracks[i].duration) # 0)
       => (/\ ret' = AVERROR_EOF
           /\ pkt' = NoPkt
           /\ Len(tracks') = Len(tracks)
           /\ \A i \in 1..Len(tracks) :
                  /\ tracks'[i].current_timestamp = tracks[i].current_timestamp
                  /\ tracks'[i].last_pts = tracks[i].last_pts)]_vars

\* the edit units of the resources of a track
EditUnits(t) ==
    {av_inv_q(t.resources[j].resource.edit_rate) : j \in 1..Len(t.resources)}

\* some edit unit of the track covers the distance between a and b
WithinOneEditUnit(t, a, b) ==
    \E eu \in EditUnits(t) :
        RatLeq(a, av_add_q(b, eu)) /\ RatLeq(b, av_add_q(a, eu))

\* the last call was a read_packet that returned AVERROR_EOF on the pump's
\* own decision (lines 744 and 753), the interrupt probe not positive
PumpReportedEndOfStream ==
    /\ pc = "opened"
    /\ call.op = "read_packet"
    /\ ret = AVERROR_EOF
    /\ ~call.probe
    /\ call.line \in {744, 753}

\* C12: whenever read_packet has returned AVERROR_EOF with no interrupt
\* signalled, for every track the time of the packets emitted on it (the sum
\* of duration x time_base) is within one edit unit of the track's duration.
C12_EmittedTimeWithinOneEditUnitAtEnd ==
    PumpReportedEndOfStream
        => \A i \in 1..Len(tracks) :
               WithinOneEditUnit(tracks[i], emitted_time[i - 1],
                                 tracks[i].duration)

\* the composition is one image track of one resource with entry point 0 and
\* no audio track, and its outer stream exists
C13_Case ==
    /\ Len(cpl_doc.main_image_2d_track) = 1
    /\ Len(cpl_doc.main_image_2d_track[1]) = 1
    /\ cpl_doc.main_image_2d_track[1][1].entry_point = 0
    /\ cpl_doc.main_audio_tracks = <<>>
    /\ Len(tracks) = 1
    /\ Len(streams) = 1

\* k x N: the edit units of the only resource, counted with its repetitions
C13_EditUnits ==
    cpl_doc.main_image_2d_track[1][1].repeat_count
        * cpl_doc.main_image_2d_track[1][1].duration

\* C13: with one image track of one resource of duration N, entry point 0 and
\* repeat count k, the child delivering one packet per edit unit, the track
\* starts at packet 0, every read_packet call before k x N packets have been
\* emitted returns the next packet (pts = number of packets emitted so far,
\* stream_index 0), and every call after that returns AVERROR_EOF.
C13_SingleTrackEmitsEveryEditUnit ==
    [][(/\ C13_Case
        /\ call'.op = "read_packet")
       => (/\ call.op = "read_header" => tracks[1].last_pts = 0
           /\ IF tracks[1].last_pts < C13_EditUnits
                THEN /\ ret' = OK
                     /\ pkt'.pts = tracks[1].last_pts
                     /\ pkt'.stream_index = 0
                     /\ tracks'[1].last_pts = tracks[1].last_pts + 1
              ELSE /\ ret' = AVERROR_EOF
                   /\ pkt' = NoPkt)]_vars

\* C13 witness: a resource of duration 2 repeated twice has delivered pts 3 as
\* its fourth packet and the next call has returned AVERROR_EOF
C13_Witness ==
    /\ C13_Case
    /\ cpl_doc.main_image_2d_track[1][1].repeat_count = 2
    /\ cpl_doc.main_image_2d_track[1][1].duration = 2
    /\ call.op = "read_packet"
    /\ ret = AVERROR_EOF
    /\ tracks[1].last_pts = 4
    /\ last_emitted[0].pts = 3

\* the edit rate b is a whole multiple of the edit rate a
RateMultiple(a, b) == (b[1] * a[2]) % (b[2] * a[1]) = 0
RateRatio(a, b) == (b[1] * a[2]) \div (b[2] * a[1])

\* the edit rate of a track whose resources share one edit rate
TrackEditRate(t) == t.resources[1].resource.edit_rate

\* an image track and at least one audio track, every audio track at a whole
\* multiple of the image edit rate and as long as the image track, the
\* resources of a track sharing one edit rate, every outer stream created
C14_Case ==
    /\ pc = "opened"
    /\ cpl_doc.main_image_2d_track # <<>>
    /\ Len(tracks) > 1
    /\ Len(streams) = Len(tracks)
    /\ \A i \in 1..Len(tracks) :
           /\ \A j \in 1..Len(tracks[i].resources) :
                  tracks[i].resources[j].resource.edit_rate
                      = TrackEditRate(tracks[i])
           /\ RateMultiple(TrackEditRate(tracks[1]), TrackEditRate(tracks[i]))
           /\ av_cmp_q(tracks[i].duration, tracks[1].duration) = 0

\* C14: with an image track at edit rate R, audio tracks at m x R of the same
\* duration and one packet per edit unit, image packet number p is emitted
\* when every audio track has emitted exactly m x p packets, so m packets of
\* each audio track lie between two consecutive image packets; an audio
\* packet is emitted only while its track is strictly behind the image track,
\* so at equal current_timestamp the image packet comes first.
C14_AudioInterleavesByEditRateRatio ==
    [][(C14_Case /\ call'.op = "read_packet" /\ ret' = OK)
       => IF pkt'.stream_index = 0
            THEN /\ pkt'.pts = tracks[1].last_pts
                 /\ tracks'[1].last_pts = tracks[1].last_pts + 1
                 /\ \A i \in 2..Len(tracks) :
                        tracks[i].last_pts =
                            RateRatio(TrackEditRate(tracks[1]),
                                      TrackEditRate(tracks[i])) * pkt'.pts
          ELSE /\ pkt'.stream_index + 1 \in 2..Len(tracks)
               /\ tracks'[pkt'.stream_index + 1].last_pts =
                      tracks[pkt'.stream_index + 1].last_pts + 1
               /\ RatLess(tracks[pkt'.stream_index + 1].current_timestamp,
                          tracks[1].current_timestamp)]_vars

\* C14 witness: the audio track at twice the image edit rate has emitted two
\* packets when the second image packet is emitted
C14_Witness ==
    /\ C14_Case
    /\ call.op = "read_packet"
    /\ ret = OK
    /\ pkt.stream_index = 0
    /\ pkt.pts = 1
    /\ RateRatio(TrackEditRate(tracks[1]), TrackEditRate(tracks[2])) = 2
    /\ tracks[2].last_pts = 2

\* the last call ended on the end of the file of the child it read (line 801,
\* the interrupt probe not consulted positive) and the track it read, the one
\* selection picks again, is before its duration with a later handle left
ChildEndedBeforeTrackEnd(ti) ==
    /\ pc = "opened"
    /\ call.op = "read_packet"
    /\ call.line = 801
    /\ ~call.interrupted
    /\ ti # 0
    /\ RatLess(tracks[ti].current_timestamp, tracks[ti].duration)
    /\ tracks[ti].current_resource_index + 1 < Len(tracks[ti].resources)

\* C15: when a read_packet call has ended on the end of the current child's
\* file while the track is before its duration and a later resource exists,
\* the following read_packet call (the interrupt probe not positive) moves
\* the track to the next resource and returns a packet of that track.
C15_ChildEndOfStreamRelocatesOnNextCall ==
    [][\A ti \in {get_next_track_with_minimum_timestamp(tracks)} :
          (/\ ChildEndedBeforeTrackEnd(ti)
           /\ call'.op = "read_packet"
           /\ ~call'.probe)
          => (/\ ret' = OK
              /\ pkt'.stream_index = tracks[ti].index
              /\ tracks'[ti].current_resource_index =
                     tracks[ti].current_resource_index + 1)]_vars

\* the handle the track is at
CurrentHandle(t) == t.resources[t.current_resource_index + 1]

\* the dts the child gave the packet it has just delivered: its position
\* before the packet
ChildDtsOfLastPacket(t, duration) == CurrentHandle(t).ctx.pos - duration

\* max(child_dts, cur_dts) - entry_point, the clamp skipped while last_pts is
\* not above 0
C16_Dts(child_dts, cur_dts, entry_point, last_pts) ==
    IF last_pts > 0 /\ cur_dts > child_dts
      THEN cur_dts - entry_point
    ELSE child_dts - entry_point

\* C16: every packet emitted on a track that has its outer stream carries
\* dts = max(child_dts, cur_dts of the outer stream) - entry_point of the
\* resource it was read from, the clamp to cur_dts skipped while the track's
\* last_pts is not above 0; a first packet whose child is positioned at the
\* entry point is emitted with dts 0 and pts 0.
C16_DtsIsClampedThenRebased ==
    [][(EmitsPacket /\ pkt'.stream_index < Len(streams))
       => \A ti \in {pkt'.stream_index + 1} :
              /\ pkt'.dts =
                     C16_Dts(ChildDtsOfLastPacket(tracks'[ti], pkt'.duration),
                             streams[ti].cur_dts,
                             CurrentHandle(tracks'[ti]).resource.entry_point,
                             tracks[ti].last_pts)
              /\ (/\ tracks[ti].last_pts <= 0
                  /\ ChildDtsOfLastPacket(tracks'[ti], pkt'.duration)
                         = CurrentHandle(tracks'[ti]).resource.entry_point)
                 => (pkt'.dts = 0 /\ pkt'.pts = 0)]_vars

\* C16 witness: a packet has been emitted whose dts is the outer stream's
\* cur_dts, above the dts the child gave it, less the entry point
C16_Witness ==
    /\ pc = "opened"
    /\ call.op = "read_packet"
    /\ ret = OK
    /\ pkt.stream_index < Len(streams)
    /\ \A ti \in {pkt.stream_index + 1} :
           pkt.dts + CurrentHandle(tracks[ti]).resource.entry_point
               > ChildDtsOfLastPacket(tracks[ti], pkt.duration)

\* C16 witness of the first packet: a track whose first resource has entry
\* point 2 has emitted, from a child positioned at 2, a packet of dts 0 and
\* pts 0
C16_FirstPacketWitness ==
    /\ pc = "opened"
    /\ call.op = "read_packet"
    /\ ret = OK
    /\ pkt.stream_index < Len(streams)
    /\ pkt.pts = 0 /\ pkt.dts = 0 /\ pkt.duration > 0
    /\ \A ti \in {pkt.stream_index + 1} :
           /\ tracks[ti].last_pts = pkt.duration
           /\ CurrentHandle(tracks[ti]).resource.entry_point = 2
           /\ ChildDtsOfLastPacket(tracks[ti], pkt.duration) = 2

\* the resources of a virtual track of the CPL from resource i on, each
\* written out repeat_count times
RECURSIVE ExpandedResources(_, _)
ExpandedResources(virtual_track, i) ==
    IF i > Len(virtual_track) THEN <<>>
    ELSE [k \in 1..virtual_track[i].repeat_count |-> virtual_track[i]]
             \o ExpandedResources(virtual_track, i + 1)

\* the sum of duration x repeat_count / edit_rate over the resources of a
\* virtual track from resource i on, as an unreduced fraction
RECURSIVE ExactDuration(_, _)
ExactDuration(virtual_track, i) ==
    IF i > Len(virtual_track) THEN <<0, 1>>
    ELSE LET plus(res, rest) ==
                 <<res.duration * res.repeat_count * res.edit_rate[2] * rest[2]
                       + rest[1] * res.edit_rate[1],
                   res.edit_rate[1] * rest[2]>>
         IN  plus(virtual_track[i], ExactDuration(virtual_track, i + 1))

RatEqual(a, b) == a[1] * b[2] = b[1] * a[2]

\* the handles of the track are the expansion of the virtual track
IsExpansionOf(track, expanded) ==
    /\ Len(track.resources) = Len(expanded)
    /\ \A j \in 1..Len(expanded) : track.resources[j].resource = expanded[j]

\* C17: after a successful open there is one track per virtual track of the
\* CPL, its handles are the CPL resources in order, each repeat_count times
\* in a row and each handle referring to its CPL resource, and its duration
\* is exactly the sum of duration x repeat_count / edit_rate over the CPL
\* resources.
C17_HandlesExpandRepeatsAndDurationIsExactSum ==
    pc = "opened"
        => /\ Len(tracks) = Len(VirtualTracks(cpl_doc))
           /\ \A i \in 1..Len(tracks) :
                  /\ IsExpansionOf(tracks[i],
                                   ExpandedResources(VirtualTracks(cpl_doc)[i], 1))
                  /\ RatEqual(tracks[i].duration,
                              ExactDuration(VirtualTracks(cpl_doc)[i], 1))

\* C17 witness: an opened track of two resources of different edit rates
C17_Witness ==
    /\ pc = "opened"
    /\ call.op = "read_header"
    /\ Len(tracks) = 1
    /\ Len(tracks[1].resources) = 2
    /\ tracks[1].resources[1].resource.edit_rate
           # tracks[1].resources[2].resource.edit_rate
    /\ tracks[1].duration = <<3, 1>>

\* C18: after every step that leaves the demuxer open, every track has
\* 0 <= current_timestamp <= duration, and a read_packet call leaves no
\* track's current_timestamp below what it was.
C18_TimestampStaysWithinDuration ==
    [][pc' = "opened"
       => /\ \A i \in 1..Len(tracks') :
                 /\ tracks'[i].current_timestamp[1] >= 0
                 /\ RatLeq(tracks'[i].current_timestamp, tracks'[i].duration)
          /\ pc = "opened"
                 => /\ Len(tracks') = Len(tracks)
                    /\ \A i \in 1..Len(tracks) :
                           RatLeq(tracks[i].current_timestamp,
                                  tracks'[i].current_timestamp)]_vars

\* the end of the span of handle i of a track on the track's timeline: the
\* sum of duration / edit_rate over handles 1..i
RECURSIVE SpanEnd(_, _)
SpanEnd(t, i) ==
    IF i = 0 THEN <<0, 1>>
    ELSE av_add_q(SpanEnd(t, i - 1),
                  av_make_q(t.resources[i].resource.duration
                                * t.resources[i].resource.edit_rate[2],
                            t.resources[i].resource.edit_rate[1]))

\* handle i (1-based) is the one whose span covers current_timestamp, the
\* last one when current_timestamp is the track's duration
CoversTimestamp(t, i) ==
    IF RatEqual(t.current_timestamp, t.duration)
      THEN i = Len(t.resources)
    ELSE /\ RatLeq(SpanEnd(t, i - 1), t.current_timestamp)
         /\ RatLess(t.current_timestamp, SpanEnd(t, i))

\* C19: in every state after a successful open, for every track whose
\* current_timestamp is within its duration, current_resource_index is the
\* index of the resource whose span covers current_timestamp, the last
\* resource when current_timestamp is at the duration.
C19_ResourceIndexCoversTimestamp ==
    pc = "opened"
        => \A i \in 1..Len(tracks) :
               RatLeq(tracks[i].current_timestamp, tracks[i].duration)
                   => CoversTimestamp(tracks[i],
                                      tracks[i].current_resource_index + 1)

RatSub(a, b) == <<a[1] * b[2] - b[1] * a[2], a[2] * b[2]>>

FirstEditUnit(t) == av_inv_q(t.resources[1].resource.edit_rate)
CurrentEditUnit(t) == av_inv_q(CurrentHandle(t).resource.edit_rate)

\* the source durations of handles 1..i of a track, in edit units
RECURSIVE SourceDurations(_, _)
SourceDurations(t, i) ==
    IF i = 0 THEN 0
    ELSE SourceDurations(t, i - 1) + t.resources[i].resource.duration

\* current_timestamp + eu <= sum over j <= i of source_duration_j x eu
Matches(t, i, eu) ==
    RatLeq(av_add_q(t.current_timestamp, eu),
           <<SourceDurations(t, i) * eu[1], eu[2]>>)

\* the first handle in order that matches, 0 when none does
FirstMatch(t, eu) ==
    IF \E i \in 1..Len(t.resources) : Matches(t, i, eu)
      THEN CHOOSE i \in 1..Len(t.resources) :
               /\ Matches(t, i, eu)
               /\ \A j \in 1..(i - 1) : ~Matches(t, j, eu)
    ELSE 0

\* a read_packet call that returns and whose selected track ti is not at its
\* duration, so that resource selection runs
SelectionRuns(ti) ==
    /\ pc = "opened"
    /\ pc' = "opened"
    /\ call'.op = "read_packet"
    /\ ti # 0
    /\ ~RatEqual(tracks[ti].current_timestamp, tracks[ti].duration)

\* the call reads the first matching handle; when none matches it returns
\* AVERROR_EOF if duration - current_timestamp is below the edit unit
\* end_eu and AVERROR_STREAM_NOT_FOUND otherwise
SelectionRule(ti, t, first, end_eu) ==
    IF first # 0
      THEN call'.line \in {790, 797, 801}
               => tracks'[ti].current_resource_index + 1 = first
    ELSE /\ call'.line \in {753, 756}
         /\ ret' = IF RatLess(RatSub(t.duration, t.current_timestamp), end_eu)
                     THEN AVERROR_EOF ELSE AVERROR_STREAM_NOT_FOUND

C21_NeverStreamNotFound ==
    ~(/\ pc = "opened"
      /\ call.op = "read_packet"
      /\ ret = AVERROR_STREAM_NOT_FOUND)

\* C22: a read_packet call made when the selected track is at its duration
\* returns AVERROR_EOF with no packet, opens and closes no child (the open
\* inputs, the leaked inputs and every handle's child are as before) and
\* leaves current_timestamp, current_resource_index and last_pts of every
\* track as they were, so that the next call finds the same state and
\* returns AVERROR_EOF again.
C22_EndedTrackReturnsEndOfStreamUntouched ==
    [][\A ti \in {get_next_track_with_minimum_timestamp(tracks)} :
          (/\ pc = "opened"
           /\ call'.op = "read_packet"
           /\ ti # 0
           /\ RatEqual(tracks[ti].current_timestamp, tracks[ti].duration))
          => (/\ pc' = "opened"
              /\ ret' = AVERROR_EOF
              /\ pkt' = NoPkt
              /\ tracks' = tracks
              /\ inputs' = inputs
              /\ leaked' = leaked
              /\ streams' = streams)]_vars

\* C22 witness: a track of two handles has been played to its duration and
\* the call after its last packet has returned AVERROR_EOF from the end test
C22_Witness ==
    /\ pc = "opened"
    /\ call.op = "read_packet"
    /\ call.line = 744
    /\ ret = AVERROR_EOF
    /\ Len(tracks) = 1
    /\ Len(tracks[1].resources) = 2
    /\ tracks[1].current_resource_index = 1
    /\ tracks[1].last_pts > 0
    /\ RatEqual(tracks[1].current_timestamp, tracks[1].duration)
    /\ inputs # {}

\* C23: on every read_packet call in which resource selection finds a
\* covering handle j other than the handle i the track is at, after the call
\* the child of handle i is closed, the child of handle j is open,
\* current_resource_index is j, a packet returned was pulled from handle j,
\* and no handle before j (the handles the cursor has left) has an open
\* child.
C23_SwitchClosesLeftResources ==
    [][\A ti \in {get_next_track_with_minimum_timestamp(tracks)} :
          (/\ pc = "opened"
           /\ call'.op = "read_packet"
           /\ ti # 0
           /\ ~RatEqual(tracks[ti].current_timestamp, tracks[ti].duration)
           /\ covering_resource(tracks[ti]) # 0
           /\ covering_resource(tracks[ti])
                  # tracks[ti].current_resource_index + 1)
          => \A j \in {covering_resource(tracks[ti])} :
                 /\ tracks'[ti].resources[tracks[ti].current_resource_index + 1]
                        .ctx.st # "open"
                 /\ tracks'[ti].resources[j].ctx.st = "open"
                 /\ tracks'[ti].current_resource_index = j - 1
                 /\ ret' = OK
                        => /\ pkt'.stream_index = tracks[ti].index
                           /\ tracks'[ti].resources[j].ctx.pos =
                                  tracks[ti].resources[j].ctx.pos + pkt'.duration
                 /\ \A k \in 1..(j - 1) :
                        tracks'[ti].resources[k].ctx.st # "open"]_vars

\* C24: whenever imf_read_header has returned 0, every track has its outer
\* stream: a failure to create a stream or to copy the codec parameters
\* makes open return an error.
C24_OpenSucceedsOnlyWithEveryStream ==
    header_ret = OK => Len(streams) = Len(tracks)

\* C25: when the open of a child demuxer has failed, the error of the failing
\* step is what the caller gets, and after a failed entry-point seek the
\* input that had been opened for the child is released: no opened input is
\* left without a context that owns it.
C25_FailedSeekReleasesTheInput ==
    (call.op = "read_header" /\ header_ret \in ChildErrors)
        => /\ call.child_failed # 0
           /\ header_ret = ERR_SEEK => leaked = 0

\* C26: imf_read_header never ends in the walk over the children of an
\* AssetList going on forever: the parse of every Asset Map returns.
C26_AssetMapParsingTerminates ==
    ~(call.op = "read_header" /\ header_ret = HANG)

\* every child of every AssetList is named Asset
OnlyAssetChildren ==
    \A d \in 1..Len(asset_docs) : \A k \in 1..Len(asset_docs[d].children) :
        asset_docs[d].children[k].name = "Asset"

\* some Asset Map lacks its AssetList, or one of its Assets lacks its Id, its
\* ChunkList, its Chunk or its Path
RequiredChildMissing ==
    \E d \in 1..Len(asset_docs) :
        \/ ~asset_docs[d].AssetList
        \/ \E k \in 1..Len(asset_docs[d].children) :
               \/ asset_docs[d].children[k].Id = NoUuid
               \/ ~asset_docs[d].children[k].ChunkList
               \/ ~asset_docs[d].children[k].Chunk
               \/ asset_docs[d].children[k].Path = NoPath

\* C28: when imf_read_header has parsed the CPL and an Asset Map (all of
\* whose AssetList children are Assets) lacks a required child, the call has
\* returned AVERROR_INVALIDDATA.
C28_MissingChildIsInvalidData ==
    (/\ call.op = "read_header"
     /\ header_ret # ERR_CPL
     /\ OnlyAssetChildren
     /\ RequiredChildMissing)
        => header_ret = AVERROR_INVALIDDATA

\* C27: in every state after a successful open the track selection yields
\* an existing track: the scan of get_next_track_with_minimum_timestamp
\* assigns its result.
C27_SelectionYieldsExistingTrack ==
    (pc = "opened" /\ header_ret = OK)
        => get_next_track_with_minimum_timestamp(tracks) \in 1..Len(tracks)

\* C29: after a successful open, with every child read delivering a packet
\* of at least one time-base unit, the repeated read_packet calls lead to a
\* call that returns AVERROR_EOF, unless the caller closes the demuxer first
\* or a call faults on an invalid pointer.
C29_ReadsLeadToEndOfStream ==
    (pc = "opened" /\ header_ret = OK)
        ~> (ret = AVERROR_EOF \/ pc \in {"closed", "crashed"})

====
